---- MODULE Spec2Model ----
(***************************************************************************)
(* DraggableSectionList (src/example/src/index.tsx).  The file holds two   *)
(* variants of the component: the `sections` variant (lines 136-926) and   *)
(* the `data` variant (lines 1122-1938).  One model covers both; the       *)
(* variable `variant` says which class is running.                         *)
(*                                                                         *)
(* Threads: the JS thread runs the component's methods (drag, the handlers *)
(* of call() nodes, React commits); the native animation thread evaluates  *)
(* the reanimated nodes (pan events, the Animated.Code block).  A call()   *)
(* node hands its arguments to JS through the FIFO `calls`.                *)
(***************************************************************************)
EXTENDS Integers, Sequences, FiniteSets, TLC

\* ------------------------------------------------------------ bounds
MaxSections == 1
MaxRows == 2
MaxDrags == 2
MaxTouch == 1
MaxCalls == 1
\* Host layout: every cell is RowSize high, the list can be scrolled to MaxScroll.
RowSize == 1
MaxScroll == 3
\* Calls made to the module of SectionList().
MaxMemoCalls == 4
\* Times the parent hands the component a new list.
MaxUpdates == 1

\* ------------------------------------------------------------ program constants
scrollPositionTolerance == 2
autoscrollThreshold == 30
autoscrollSpeed == 100

\* null, and the Error keyExtractor throws.  Keys, nodes and these are all tuples, so
\* that any two of them can be compared.
Null == <<>>
Throw == <<"Error: You must provide a keyExtractor to DraggableFlatList">>

Variants == {"sections", "data"}

\* GestureState of react-native-gesture-handler.
Terminal == {"END", "CANCELLED", "FAILED"}
GestureStates == {"UNDETERMINED", "BEGAN", "ACTIVE"} \cup Terminal

\* ------------------------------------------------------------ the list data
\* A section list is built from its shape (the row count of each section).
\* Section s has the header item <<s, 0>> and the rows <<s, 1>>, <<s, 2>>, ...
SectionOf(s, rows) ==
  [title |-> <<s, 0>>, data |-> [r \in 1..rows |-> <<s, r>>]]

SectionsOfShape(shape) ==
  [s \in 1..Len(shape) |-> SectionOf(s, shape[s])]

Shapes == UNION {[1..k -> 0..MaxRows] : k \in 0..MaxSections}

SectionLists == {SectionsOfShape(shape) : shape \in Shapes}

\* The user's keyExtractor prop: a key derived from the item alone.
PropsKeyExtractor(item, index) == <<"key", item[1], item[2]>>

\* A key that belongs to no item of the list.
UnknownKey == <<"key", 0, 0>>

RECURSIVE Flatten(_)
\* Each section's header followed by its rows, sections in order.
Flatten(secs) ==
  IF secs = <<>> THEN <<>>
  ELSE <<secs[1].title>> \o secs[1].data \o Flatten(Tail(secs))

\* Array.prototype.indexOf, 0-based, -1 when absent.
IndexOf(seq, x) ==
  IF \E i \in 1..Len(seq) : seq[i] = x
  THEN (CHOOSE i \in 1..Len(seq) : seq[i] = x /\ \A j \in 1..(i - 1) : seq[j] # x) - 1
  ELSE -1

Min(a, b) == IF a < b THEN a ELSE b
Max(a, b) == IF a > b THEN a ELSE b

\* A Map as a function; Map.set.
MapSet(m, k, v) == [x \in DOMAIN m \cup {k} |-> IF x = k THEN v ELSE m[x]]
EmptyMap == [x \in {} |-> 0]
MapHas(m, k) == k \in DOMAIN m

VARIABLES
  \* props
  variant, hasKeyExtractor, dragItemOverflow, platformIOS, sections,
  onScrollOffsetChange, horizontal,
  \* component life
  phase, headersAndData, keyToIndex, cellData, cellRefs, listRef,
  layoutEvents, measureRequests, queue,
  \* React state
  activeKey, hoverComponent, pending, overlay,
  \* animated values
  activeIndex, spacerIndex, disabled, hasMoved, panGestureState,
  touchAbsolute, activationDistance, activeCellSize, isPressedInNative,
  hoverClockRunning, hoverAnimPosition,
  isAutoscrollingNative, targetScrollOffset,
  \* JS fields
  isPressedInJs, isAutoscrollingJs, autoscrollLooping, asPc, curParams, loopTick,
  resolveAutoscroll,
  \* native -> JS calls in flight
  calls,
  \* the host: gesture recogniser state, scroll position of the list
  handlerState, listScrollY,
  \* what the component reported through its callback props; the number of drag()
  \* calls; the accepted ones
  callbacks, nDrag, accepted,
  \* the scrollOffset value
  scrollOffset,
  \* frames requested with onNextFrame(flushQueue); the tasks flushQueue dropped
  \* without running them; the measureCell calls of every measureAll; the calls
  \* of dataKeysHaveChanged; the number of props updates
  frames, discarded, measureAllLog, keysChangedLog, nUpdate,
  \* the module of SectionList(): the MEMOIZED WeakMap, its SectionList
  \* property, the createNativeWrapper calls made, the values returned
  MEMOIZED, memoSectionList, created, returned

propVars == <<variant, hasKeyExtractor, dragItemOverflow, platformIOS, sections,
              onScrollOffsetChange, horizontal>>
lifeVars == <<phase, headersAndData, keyToIndex, cellData, cellRefs, listRef>>
measureVars == <<layoutEvents, measureRequests, queue>>
reactVars == <<activeKey, hoverComponent, pending, overlay>>
dragVars == <<activeIndex, spacerIndex, disabled, hasMoved>>
touchVars == <<touchAbsolute, activationDistance, activeCellSize, isPressedInNative>>
springVars == <<hoverClockRunning, hoverAnimPosition>>
scrollVars == <<isAutoscrollingNative, targetScrollOffset, isAutoscrollingJs,
                autoscrollLooping, asPc, curParams, loopTick, resolveAutoscroll>>
ghostVars == <<callbacks, nDrag, accepted>>
updVars == <<frames, discarded, measureAllLog, keysChangedLog, nUpdate>>
memoVars == <<MEMOIZED, memoSectionList, created, returned>>

vars == <<propVars, lifeVars, measureVars, reactVars, dragVars, touchVars,
          springVars, scrollVars, isPressedInJs, panGestureState, calls,
          handlerState, listScrollY, ghostVars, scrollOffset, updVars, memoVars>>

\* ------------------------------------------------------------ fields never assigned
\* new Value(0) fields that no code of the component ever sets.
containerSize == 0
scrollViewSize == 0
touchCellOffset == 0
hoverTo == 0

\* ------------------------------------------------------------ keyExtractor
keyExtractorUnchecked(item, index) == PropsKeyExtractor(item, index)

keyExtractor(item, index) ==
  IF hasKeyExtractor THEN PropsKeyExtractor(item, index) ELSE Throw

\* ------------------------------------------------------------ construction
\* State of a component object whose field initialisers have run.
FreshFields ==
  /\ headersAndData = <<>>
  /\ keyToIndex = EmptyMap
  /\ cellData = EmptyMap
  /\ cellRefs = {}
  /\ listRef = FALSE
  /\ layoutEvents = <<>>
  /\ measureRequests = <<>>
  /\ queue = <<>>
  /\ activeKey = Null
  /\ hoverComponent = Null
  /\ pending = <<>>
  /\ overlay = Null
  /\ activeIndex = -1
  /\ spacerIndex = -1
  /\ disabled = 0
  /\ hasMoved = 0
  /\ panGestureState = "UNDETERMINED"
  /\ touchAbsolute = 0
  /\ activationDistance = 0
  /\ activeCellSize = 0
  /\ isPressedInNative = 0
  /\ hoverClockRunning = FALSE
  /\ hoverAnimPosition = 0
  /\ isAutoscrollingNative = 0
  /\ targetScrollOffset = 0
  /\ isAutoscrollingJs = FALSE
  /\ autoscrollLooping = FALSE
  /\ asPc = "idle"
  /\ curParams = <<>>
  /\ loopTick = 0
  /\ resolveAutoscroll = FALSE
  /\ calls = <<>>
  /\ handlerState = "UNDETERMINED"
  /\ listScrollY = 0
  /\ callbacks = <<>>
  /\ nDrag = 0
  /\ accepted = <<>>
  /\ scrollOffset = 0
  /\ frames = 0
  /\ discarded = {}
  /\ measureAllLog = <<>>
  /\ keysChangedLog = <<>>
  /\ nUpdate = 0

\* The module of SectionList() has been loaded and nothing has called it.
FreshModule ==
  /\ MEMOIZED = EmptyMap
  /\ memoSectionList = Null
  /\ created = <<>>
  /\ returned = <<>>

Fresh ==
  /\ phase = "new"
  /\ isPressedInJs = FALSE
  /\ FreshFields
  /\ FreshModule

Init ==
  /\ variant \in Variants
  /\ hasKeyExtractor \in BOOLEAN
  /\ dragItemOverflow \in BOOLEAN
  /\ platformIOS = TRUE
  /\ sections \in SectionLists
  /\ onScrollOffsetChange = FALSE
  /\ horizontal = FALSE
  /\ Fresh

RECURSIVE SetAll(_, _, _)
\* forEach((item, index) => keyToIndex.set(keyExtractor(item, index), index)) over
\* items[from..], the first of which has flat index `index`.
SetAll(m, items, index) ==
  IF items = <<>> THEN m
  ELSE SetAll(MapSet(m, keyExtractor(items[1], index), index), Tail(items), index + 1)

\* Both constructors walk the headers and rows in flat order and store each key
\* with its flat index; the first keyExtractor call throws when the prop is absent.
Constructor ==
  /\ phase = "new"
  /\ LET flat == Flatten(sections) IN
     IF flat # <<>> /\ keyExtractor(flat[1], 0) = Throw
     THEN /\ phase' = "threw"
          /\ headersAndData' = (IF variant = "sections" THEN flat ELSE <<>>)
          /\ UNCHANGED keyToIndex
     ELSE /\ phase' = "constructed"
          /\ headersAndData' = (IF variant = "sections" THEN flat ELSE <<>>)
          /\ keyToIndex' = SetAll(keyToIndex, flat, 0)
  /\ UNCHANGED <<propVars, scrollOffset, updVars, memoVars, cellData, cellRefs, listRef, measureVars, reactVars,
                 dragVars, touchVars, springVars, scrollVars, isPressedInJs,
                 panGestureState, calls, handlerState, listScrollY, ghostVars>>

\* ------------------------------------------------------------ first render
RECURSIVE RowInfos(_)
\* What the `data` variant's SectionList hands to renderItem: every row with its
\* index (the list passes the row's index within its section).
RowInfos(secs) ==
  IF secs = <<>> THEN <<>>
  ELSE [r \in 1..Len(secs[1].data) |-> [item |-> secs[1].data[r], index |-> r - 1]]
       \o RowInfos(Tail(secs))

\* The cells one render pass renders, in order, each with the index its render
\* function uses: the `sections` variant renders headers and rows and looks the
\* index up in headersAndData; the `data` variant renders rows only (its section
\* header is an empty View).
RenderedCellsOf(secs) ==
  IF variant = "sections"
  THEN LET flat == Flatten(secs) IN
       [i \in 1..Len(flat) |-> [item |-> flat[i], index |-> IndexOf(headersAndData, flat[i])]]
  ELSE RowInfos(secs)

RenderedCells == RenderedCellsOf(sections)

KeysOfCells(cells) == [i \in 1..Len(cells) |-> keyExtractor(cells[i].item, cells[i].index)]

RenderedKeys == KeysOfCells(RenderedCells)

\* setCellData: a new cell, not measured yet.
setCellData(cd, key) == MapSet(cd, key, [size |-> 0, offset |-> 0])

RECURSIVE RenderIndex(_, _)
\* renderItem / renderSectionHeader: if (index !== keyToIndex.get(key)) keyToIndex.set(key, index)
RenderIndex(m, infos) ==
  IF infos = <<>> THEN m
  ELSE LET key == keyExtractor(infos[1].item, infos[1].index) IN
       RenderIndex(IF ~MapHas(m, key) \/ m[key] # infos[1].index
                   THEN MapSet(m, key, infos[1].index) ELSE m,
                   Tail(infos))

RECURSIVE RenderCellData(_, _)
\* renderItem / renderSectionHeader: if (!cellData.get(key)) setCellData(key, index)
RenderCellData(cd, keys) ==
  IF keys = <<>> THEN cd
  ELSE RenderCellData(IF MapHas(cd, keys[1]) THEN cd ELSE setCellData(cd, keys[1]),
                      Tail(keys))

RECURSIVE Twice(_)
Twice(seq) == IF seq = <<>> THEN <<>> ELSE <<seq[1], seq[1]>> \o Twice(Tail(seq))

\* render(): the overlay is rendered exactly when state.hoverComponent is truthy.
renderHoverComponent(hc) == <<"overlay", hc>>
RenderOverlay(hc) == IF hc # Null THEN renderHoverComponent(hc) ELSE Null

\* The first render and mount: every cell is rendered, the refs are attached (the
\* `sections` variant passes flatlistRef to the list, the `data` variant passes
\* sectionListRef to nothing), and the host will lay every cell out.  The `data`
\* variant puts onLayout on the cell's outer and inner view, so it fires twice.
Mount ==
  /\ phase = "constructed"
  /\ phase' = "mounted"
  /\ keyToIndex' = RenderIndex(keyToIndex, RenderedCells)
  /\ cellData' = RenderCellData(cellData, RenderedKeys)
  /\ cellRefs' = {RenderedKeys[i] : i \in 1..Len(RenderedKeys)}
  /\ listRef' = (variant = "sections")
  /\ layoutEvents' = (IF variant = "sections" THEN RenderedKeys ELSE Twice(RenderedKeys))
  /\ overlay' = RenderOverlay(hoverComponent)
  /\ UNCHANGED <<propVars, scrollOffset, updVars, memoVars, headersAndData, measureRequests, queue, activeKey,
                 hoverComponent, pending, dragVars, touchVars, springVars, scrollVars,
                 isPressedInJs, panGestureState, calls, handlerState, listScrollY,
                 ghostVars>>

\* ------------------------------------------------------------ measuring
\* The JS thread is not inside autoscroll's loop.
JsRuns == asPc # "loop"

\* The JS thread can start another task: React flushes the setState batch of a
\* task (Commit) before the task ends.
JsIdle == JsRuns /\ pending = <<>>

\* measureCell(key): ask the host for the cell's layout when the cell's ref and
\* the list's ref are there, else put a retry on the queue.
MeasureCell(key) ==
  IF key \in cellRefs /\ listRef
  THEN /\ measureRequests' = Append(measureRequests, key)
       /\ UNCHANGED queue
  ELSE /\ queue' = Append(queue, key)
       /\ UNCHANGED measureRequests

\* The host has delivered the layout pass that follows the mount; the user
\* touches the list after that.
Settled == layoutEvents = <<>> /\ measureRequests = <<>>

\* cellData.onLayout of the cell the host laid out next.
OnLayout ==
  /\ phase = "mounted"
  /\ JsIdle
  /\ layoutEvents # <<>>
  /\ layoutEvents' = Tail(layoutEvents)
  /\ IF activeKey # Head(layoutEvents)
     THEN MeasureCell(Head(layoutEvents))
     ELSE UNCHANGED <<measureRequests, queue>>
  /\ UNCHANGED <<propVars, scrollOffset, updVars, memoVars, lifeVars, reactVars, dragVars, touchVars, springVars,
                 scrollVars, isPressedInJs, panGestureState, calls, handlerState,
                 listScrollY, ghostVars>>

\* The host's layout of a cell, relative to the list: cells are stacked in flat
\* order along the list's axis.
HostY(key) ==
  LET flat == Flatten(sections)
      i == CHOOSE j \in 1..Len(flat) : PropsKeyExtractor(flat[j], j - 1) = key
  IN (i - 1) * RowSize

\* Across the list's axis every cell is at CrossAt and CrossSize wide.
CrossAt == 5 * RowSize
CrossSize == 3 * RowSize

\* The <<x, y, w, h>> measureLayout reports for a cell.
HostRect(key) ==
  IF horizontal THEN <<HostY(key), CrossAt, RowSize, CrossSize>>
  ELSE <<CrossAt, HostY(key), CrossSize, RowSize>>

\* measureCell's onSuccess(x, y, w, h): the cellData it leaves.
OnSuccessCell(key, x, y, w, h) ==
  LET isHovering == activeKey # Null
      baseOffset == IF horizontal THEN x ELSE y
      extraOffset ==
        IF /\ MapHas(keyToIndex, key)
           /\ activeKey # Null
           /\ MapHas(keyToIndex, activeKey)
           /\ isHovering
           /\ keyToIndex[key] > keyToIndex[activeKey]
           /\ MapHas(cellData, activeKey)
        THEN cellData[activeKey].size ELSE 0
      size == IF horizontal THEN w ELSE h
  IN IF MapHas(cellData, key)
     THEN MapSet(cellData, key, [size |-> size, offset |-> baseOffset + extraOffset])
     ELSE cellData

\* The host answers the oldest measureLayout: onSuccess, or onFail (which only
\* logs) when the view is gone.
OnSuccess ==
  /\ phase = "mounted"
  /\ JsIdle
  /\ measureRequests # <<>>
  /\ LET key == Head(measureRequests) IN
       IF key \in cellRefs
       THEN /\ cellData' = OnSuccessCell(key, HostRect(key)[1], HostRect(key)[2],
                                         HostRect(key)[3], HostRect(key)[4])
            /\ queue' = (IF activeKey # Null THEN Append(queue, key) ELSE queue)
       ELSE UNCHANGED <<cellData, queue>>
  /\ measureRequests' = Tail(measureRequests)
  /\ UNCHANGED <<propVars, scrollOffset, updVars, memoVars, phase, headersAndData, keyToIndex, cellRefs, listRef,
                 layoutEvents, reactVars, dragVars, touchVars, springVars, scrollVars,
                 isPressedInJs, panGestureState, calls, handlerState, listScrollY,
                 ghostVars>>

\* ------------------------------------------------------------ the node graph
\* The derived nodes, as functions of the values they read: t is touchAbsolute,
\* sz is activeCellSize.
hoverAnimUnconstrained(t) == t - touchCellOffset

hoverAnimConstrained(t, sz) ==
  Min(containerSize - sz, Max(0, hoverAnimUnconstrained(t)))

hoverAnimOf(t, sz) ==
  IF dragItemOverflow THEN hoverAnimUnconstrained(t) ELSE hoverAnimConstrained(t, sz)

hoverAnim == hoverAnimOf(touchAbsolute, activeCellSize)

isHovering == activeIndex > -1

distToTopEdge(t, sz) == Max(0, hoverAnimOf(t, sz))
distToBottomEdge(t, sz) == Max(0, containerSize - (hoverAnimOf(t, sz) + sz))
isAtTopEdge(t, sz) == distToTopEdge(t, sz) <= autoscrollThreshold
isAtBottomEdge(t, sz) == distToBottomEdge(t, sz) <= autoscrollThreshold
isAtEdge(t, sz) == isAtBottomEdge(t, sz) \/ isAtTopEdge(t, sz)
isScrolledUp == scrollOffset - scrollPositionTolerance <= 0
isScrolledDown == scrollOffset + containerSize + scrollPositionTolerance >= scrollViewSize

Num(b) == IF b THEN 1 ELSE 0

autoscrollParams(t, sz) ==
  <<distToTopEdge(t, sz), distToBottomEdge(t, sz), scrollOffset,
    Num(isScrolledUp), Num(isScrolledDown)>>

\* checkAutoscroll: the calls to JS it makes (none, or autoscroll(params)).
checkAutoscroll(t, sz, pan) ==
  IF /\ isAtEdge(t, sz)
     /\ ~(isAtTopEdge(t, sz) /\ isScrolledUp)
     /\ ~(isAtBottomEdge(t, sz) /\ isScrolledDown)
     /\ pan = "ACTIVE"
     /\ isAutoscrollingNative = 0
  THEN <<[fn |-> "autoscroll", args |-> autoscrollParams(t, sz)]>>
  ELSE <<>>

\* Animated.Code: onChange(touchAbsolute, checkAutoscroll)
OnChangeTouch(old, new, sz, pan) ==
  IF new # old THEN checkAutoscroll(new, sz, pan) ELSE <<>>

\* Animated.Code, rendered when props.onScrollOffsetChange is given (`data`
\* variant; commented out in the `sections` variant):
\* onChange(scrollOffset, call([scrollOffset], handler)).
OnChangeScrollOffset(old, new) ==
  IF variant = "data" /\ onScrollOffsetChange /\ new # old
  THEN <<[fn |-> "scrollOffsetCall", args |-> <<new>>]>>
  ELSE <<>>

\* The handler of that call: ([offset]) => (e) => console.log(e).  It returns a
\* function and calls nothing; these are the callback props it calls.
ScrollOffsetHandler(offset) == <<>>

\* ------------------------------------------------------------ drag
\* The rows that render a RowItem, whose drag() the user can trigger.
RowKeys == {PropsKeyExtractor(RowInfos(sections)[i].item, i) :
              i \in 1..Len(RowInfos(sections))}

DragKeys == RowKeys \cup {UnknownKey}

\* RowItem.drag: renderItem({isActive: true, ...}) of the row, a React.ReactNode:
\* an element, or null when the render function renders nothing.
HoverNode(key) == <<"node", key[2], key[3]>>
HoverNodes(key) == {HoverNode(key), Null}

NullKeyOnly == [activeKey |-> Null, hoverComponent |-> <<"node", 0, 0>>, cb |-> Null]
NullState == [activeKey |-> Null, hoverComponent |-> Null, cb |-> Null]

\* drag's test: a row is already lifted.
DragNeverRejected == FALSE
DragRejected == hoverComponent # Null

\* drag(hoverComponent, activeKey): rejected while a hover component is set;
\* else setState({activeKey, hoverComponent}, callback).  Only the `sections`
\* variant sets isPressedIn.js.
Drag(key, hc) ==
  /\ phase = "mounted"
  /\ JsRuns
  /\ Settled
  /\ nDrag < MaxDrags
  /\ nDrag' = nDrag + 1
  /\ IF DragRejected
     THEN UNCHANGED <<pending, isPressedInJs, accepted>>
     ELSE /\ isPressedInJs' = (IF variant = "sections" THEN TRUE ELSE isPressedInJs)
          /\ pending' = Append(pending, [activeKey |-> key, hoverComponent |-> hc,
                                         cb |-> key])
          /\ accepted' = Append(accepted, [key |-> key, hoverComponent |-> hc])
  /\ UNCHANGED <<propVars, scrollOffset, updVars, memoVars, lifeVars, measureVars, activeKey, hoverComponent, overlay,
                 dragVars, touchVars, springVars, scrollVars, panGestureState, calls,
                 handlerState, listScrollY, callbacks>>

NoDragBeginCalls(batch) == <<>>

RECURSIVE DragBeginCalls(_)
\* The setState callbacks of a batch, in order: onDragBegin(index) when the key
\* has an index.
DragBeginCalls(batch) ==
  IF batch = <<>> THEN <<>>
  ELSE (IF batch[1].cb # Null /\ MapHas(keyToIndex, batch[1].cb)
        THEN <<<<"onDragBegin", keyToIndex[batch[1].cb]>>>> ELSE <<>>)
       \o DragBeginCalls(Tail(batch))

\* componentDidUpdate's test that a row has just become active.
Activated(prevKey, newKey) == prevKey = Null /\ newKey # Null

\* React commits the pending setState batch: the new state, render(),
\* componentDidUpdate(prevProps, prevState), then the setState callbacks.
Commit ==
  /\ phase = "mounted"
  /\ JsRuns
  /\ pending # <<>>
  /\ LET new == pending[Len(pending)]
         act == Activated(activeKey, new.activeKey)
         hasIndex == act /\ MapHas(keyToIndex, new.activeKey)
         hasCell == act /\ MapHas(cellData, new.activeKey)
         t == IF hasCell THEN cellData[new.activeKey].offset - scrollOffset
              ELSE touchAbsolute
         sz == IF hasCell THEN cellData[new.activeKey].size ELSE activeCellSize
     IN
       /\ activeKey' = new.activeKey
       /\ hoverComponent' = new.hoverComponent
       /\ overlay' = RenderOverlay(new.hoverComponent)
       /\ pending' = <<>>
       /\ spacerIndex' = (IF hasIndex THEN keyToIndex[new.activeKey] ELSE spacerIndex)
       /\ activeIndex' = (IF hasIndex THEN keyToIndex[new.activeKey] ELSE activeIndex)
       /\ isPressedInNative' = (IF hasIndex THEN 1 ELSE isPressedInNative)
       /\ touchAbsolute' = t
       /\ activeCellSize' = sz
       /\ calls' = calls \o OnChangeTouch(touchAbsolute, t, sz, panGestureState)
       /\ callbacks' = callbacks \o DragBeginCalls(pending)
  /\ UNCHANGED <<propVars, scrollOffset, updVars, memoVars, lifeVars, measureVars, disabled, hasMoved,
                 activationDistance, springVars, scrollVars, isPressedInJs,
                 panGestureState, handlerState, listScrollY, nDrag, accepted>>

\* ------------------------------------------------------------ the pan gesture
\* The gesture handler's own state machine.
HandlerNext(s) ==
  CASE s = "BEGAN" -> {"ACTIVE", "FAILED", "CANCELLED"}
    [] s = "ACTIVE" -> {"END", "CANCELLED"}
    [] OTHER -> {"BEGAN"}

\* onGestureRelease: the calls to JS it makes.
ReleaseCalls ==
  IF isHovering
  THEN <<[fn |-> "onRelease", args |-> <<activeIndex>>]>>
       \o (IF hasMoved = 0 THEN <<[fn |-> "resetHoverState", args |-> <<activeIndex>>]>>
           ELSE <<>>)
  ELSE <<[fn |-> "resetHoverState", args |-> <<activeIndex>>]>>

\* props.horizontal ? x : y
AlongList(x, y) == IF horizontal THEN x ELSE y

\* onPanStateChange({state, x, y}).
PanStateChange(state, x, y) ==
  /\ phase = "mounted"
  /\ Settled
  /\ state \in HandlerNext(handlerState)
  /\ Len(calls) < MaxCalls
  /\ handlerState' = state
  /\ IF state # panGestureState /\ disabled = 0
     THEN /\ panGestureState' = state
          /\ activationDistance' =
               (IF state = "ACTIVE" THEN touchAbsolute - AlongList(x, y)
                ELSE activationDistance)
          /\ IF state \in Terminal
             THEN /\ calls' = calls \o ReleaseCalls
                  /\ disabled' = (IF isHovering THEN 1 ELSE disabled)
                  /\ hoverClockRunning' = (IF isHovering THEN TRUE ELSE hoverClockRunning)
                  /\ hoverAnimPosition' = (IF isHovering THEN hoverAnim ELSE hoverAnimPosition)
             ELSE UNCHANGED <<calls, disabled, springVars>>
     ELSE UNCHANGED <<panGestureState, activationDistance, calls, disabled, springVars>>
  /\ UNCHANGED <<propVars, scrollOffset, updVars, memoVars, lifeVars, measureVars, reactVars, activeIndex, spacerIndex,
                 hasMoved, touchAbsolute, activeCellSize, isPressedInNative, scrollVars,
                 isPressedInJs, listScrollY, ghostVars>>

\* An onPanGestureEvent that does not test isHovering.
MoveAcceptedNotHovering == panGestureState = "ACTIVE" /\ disabled = 0

\* onPanGestureEvent's condition.
MoveAccepted == isHovering /\ panGestureState = "ACTIVE" /\ disabled = 0

\* onPanGestureEvent({x, y}), sent while the handler is active.
PanGestureEvent(x, y) ==
  /\ phase = "mounted"
  /\ handlerState = "ACTIVE"
  /\ IF MoveAccepted
     THEN /\ hasMoved' = 1
          /\ touchAbsolute' = AlongList(x, y) + activationDistance
          /\ calls' = calls \o OnChangeTouch(touchAbsolute,
                                             AlongList(x, y) + activationDistance,
                                             activeCellSize, panGestureState)
     ELSE UNCHANGED <<hasMoved, touchAbsolute, calls>>
  /\ UNCHANGED <<propVars, scrollOffset, updVars, memoVars, lifeVars, measureVars, reactVars, activeIndex, spacerIndex,
                 disabled, activationDistance, activeCellSize, isPressedInNative,
                 springVars, scrollVars, isPressedInJs, panGestureState, handlerState,
                 listScrollY, ghostVars>>

\* The slots of the list the spacer can be at.
Slots == 0..(Len(Flatten(sections)) - 1)

\* setupCell (./procs): while the lifted row is being moved, the cells it passes
\* move the spacer to another slot of the list.
setupCell(slot) ==
  /\ phase = "mounted"
  /\ isHovering
  /\ hasMoved = 1
  /\ slot \in Slots
  /\ slot # spacerIndex
  /\ spacerIndex' = slot
  /\ UNCHANGED <<propVars, scrollOffset, updVars, memoVars, lifeVars, measureVars, reactVars, activeIndex, disabled,
                 hasMoved, touchVars, springVars, scrollVars, isPressedInJs,
                 panGestureState, calls, handlerState, listScrollY, ghostVars>>

\* Animated.Code: the hover spring has finished: stopClock, call(moveEndParams,
\* onDragEnd), resetHoverSpring, set(hasMoved, 0).
SpringFinish ==
  /\ hoverClockRunning
  /\ hoverClockRunning' = FALSE
  /\ hoverAnimPosition' = hoverTo
  /\ touchAbsolute' = hoverTo
  /\ hasMoved' = 0
  /\ calls' = calls \o <<[fn |-> "onDragEnd", args |-> <<activeIndex, spacerIndex>>]>>
              \o OnChangeTouch(touchAbsolute, hoverTo, activeCellSize, panGestureState)
  /\ UNCHANGED <<propVars, scrollOffset, updVars, memoVars, lifeVars, measureVars, reactVars, activeIndex, spacerIndex,
                 disabled, activationDistance, activeCellSize, isPressedInNative,
                 scrollVars, isPressedInJs, panGestureState, handlerState, listScrollY,
                 ghostVars>>

\* ------------------------------------------------------------ handlers of call()
\* Array.prototype.splice(start, deleteCount, ...items): the array afterwards.
Splice(a, start, deleteCount, items) ==
  LET from == IF start < 0 THEN Max(Len(a) + start, 0) ELSE Min(start, Len(a))
      del == Min(Max(deleteCount, 0), Len(a) - from)
  IN SubSeq(a, 1, from) \o items \o SubSeq(a, from + del + 1, Len(a))

\* undefined, as an element of an array of sections.
UndefinedSection == [title |-> Null, data |-> <<>>]

\* a[i], 0-based.
JsAt(a, i) == IF i >= 0 /\ i < Len(a) THEN a[i + 1] ELSE UndefinedSection

\* onDragEnd's newData (the `data` variant).
NewData(data, from, to) ==
  IF from # to
  THEN Splice(Splice(data, from, 1, <<>>), to, 0, <<JsAt(data, from)>>)
  ELSE data

\* resetHoverState's setValue calls.
resetActiveIndexOnly == [activeIndex |-> -1, spacerIndex |-> spacerIndex, disabled |-> 0]
resetHoverStateValues == [activeIndex |-> -1, spacerIndex |-> -1, disabled |-> 0]

\* resetHoverState's setState, skipped when the state is null already.
ResetSetState ==
  IF hoverComponent # Null \/ activeKey # Null THEN <<NullState>> ELSE <<>>

\* ------------------------------------------------------------ autoscroll
getScrollTargetOffsetWhileScrolling(distFromTop, distFromBottom, offset, scrolledUp, scrolledDown) ==
  LET scrollUp == distFromTop < autoscrollThreshold
      scrollDown == distFromBottom < autoscrollThreshold
      distFromEdge == IF scrollUp THEN distFromTop ELSE distFromBottom
      speed == IF platformIOS THEN autoscrollSpeed ELSE autoscrollSpeed \div 10
      step == ((autoscrollThreshold - distFromEdge) * speed) \div autoscrollThreshold
  IN IF \/ ~(scrollUp \/ scrollDown)
        \/ (scrollUp /\ scrolledUp)
        \/ (scrollDown /\ scrolledDown)
     THEN -1
     ELSE IF scrollUp THEN Max(0, offset - step) ELSE offset + step

\* getScrollTargetOffset; -1 when there is nothing to scroll.  speedPct * speed is
\* (1 - distFromEdge / autoscrollThreshold) * speed, computed here as one fraction.
getScrollTargetOffset(distFromTop, distFromBottom, offset, scrolledUp, scrolledDown) ==
  LET scrollUp == distFromTop < autoscrollThreshold
      scrollDown == distFromBottom < autoscrollThreshold
      distFromEdge == IF scrollUp THEN distFromTop ELSE distFromBottom
      speed == IF platformIOS THEN autoscrollSpeed ELSE autoscrollSpeed \div 10
      step == ((autoscrollThreshold - distFromEdge) * speed) \div autoscrollThreshold
  IN IF isAutoscrollingJs THEN -1
     ELSE IF \/ ~(scrollUp \/ scrollDown)
             \/ (scrollUp /\ scrolledUp)
             \/ (scrollDown /\ scrolledDown)
          THEN -1
          ELSE IF scrollUp THEN Max(0, offset - step) ELSE offset + step

\* The target offset of one iteration of autoscroll's loop.
TargetOffset(params) ==
  getScrollTargetOffset(params[1], params[2], params[3], params[4] # 0, params[5] # 0)

\* shouldScroll, as one iteration of autoscroll's loop computes it.
ShouldScroll(params) ==
  LET targetOffset == TargetOffset(params)
      scrollingUpAtTop == params[4] # 0 /\ targetOffset <= params[3]
      scrollingDownAtBottom == params[5] # 0 /\ targetOffset >= params[3]
  IN /\ targetOffset >= 0
     /\ isPressedInJs
     /\ ~scrollingUpAtTop
     /\ ~scrollingDownAtBottom

\* autoscroll(params) up to its loop: returns at once when a loop is running.
autoscroll(params) ==
  IF autoscrollLooping
  THEN UNCHANGED <<autoscrollLooping, asPc, curParams>>
  ELSE /\ autoscrollLooping' = TRUE
       /\ asPc' = "loop"
       /\ curParams' = params

\* scrollToAsync(offset): a promise whose resolver is kept in resolveAutoscroll
\* (here: whether one is kept); nothing calls the resolver.
scrollToAsync(offset) ==
  /\ resolveAutoscroll' = TRUE
  /\ targetScrollOffset' = offset
  /\ isAutoscrollingNative' = 1
  /\ isAutoscrollingJs' = TRUE

\* One iteration of autoscroll's while loop.  When shouldScroll is false the loop
\* ends and `finally` clears autoscrollLooping.  When it is true, the `sections`
\* variant goes round again at once (its await is commented out), the `data`
\* variant awaits scrollToAsync(targetOffset), whose promise nothing resolves.
AutoscrollIterate ==
  /\ asPc = "loop"
  /\ IF ShouldScroll(curParams)
     THEN IF variant = "sections"
          THEN /\ loopTick' = 1 - loopTick
               /\ UNCHANGED <<isAutoscrollingNative, targetScrollOffset,
                              isAutoscrollingJs, autoscrollLooping, asPc, curParams,
                              resolveAutoscroll>>
          ELSE /\ scrollToAsync(TargetOffset(curParams))
               /\ asPc' = "await"
               /\ UNCHANGED <<autoscrollLooping, curParams, loopTick>>
     ELSE /\ autoscrollLooping' = FALSE
          /\ asPc' = "idle"
          /\ curParams' = <<>>
          /\ UNCHANGED <<isAutoscrollingNative, targetScrollOffset, isAutoscrollingJs,
                         loopTick, resolveAutoscroll>>
  /\ UNCHANGED <<propVars, scrollOffset, updVars, memoVars, lifeVars, measureVars, reactVars, dragVars, touchVars,
                 springVars, isPressedInJs, panGestureState, calls, handlerState,
                 listScrollY, ghostVars>>

\* The JS thread runs the handler of the oldest call.
RunCall ==
  /\ calls # <<>>
  /\ JsIdle
  /\ calls' = Tail(calls)
  /\ LET c == Head(calls) IN
     CASE c.fn = "onRelease" ->
            /\ isPressedInJs' = (IF variant = "data" THEN FALSE ELSE isPressedInJs)
            /\ callbacks' = (IF variant = "data"
                             THEN Append(callbacks, <<"onRelease", c.args[1]>>)
                             ELSE callbacks)
            /\ UNCHANGED <<dragVars, pending, autoscrollLooping, asPc, curParams>>
       [] c.fn = "resetHoverState" ->
            /\ activeIndex' = resetHoverStateValues.activeIndex
            /\ spacerIndex' = resetHoverStateValues.spacerIndex
            /\ disabled' = resetHoverStateValues.disabled
            /\ pending' = pending \o ResetSetState
            /\ UNCHANGED <<hasMoved, isPressedInJs, callbacks, autoscrollLooping, asPc,
                           curParams>>
       [] c.fn = "onDragEnd" ->
            /\ callbacks' = (IF variant = "data"
                             THEN Append(callbacks,
                                         <<"onDragEnd", c.args[1], c.args[2],
                                           NewData(sections, c.args[1], c.args[2])>>)
                             ELSE callbacks)
            /\ UNCHANGED <<dragVars, pending, isPressedInJs, autoscrollLooping, asPc,
                           curParams>>
       [] c.fn = "autoscroll" ->
            /\ autoscroll(c.args)
            /\ UNCHANGED <<dragVars, pending, isPressedInJs, callbacks>>
       [] c.fn = "scrollOffsetCall" ->
            /\ callbacks' = callbacks \o ScrollOffsetHandler(c.args[1])
            /\ UNCHANGED <<dragVars, pending, isPressedInJs, autoscrollLooping, asPc,
                           curParams>>
  /\ UNCHANGED <<propVars, scrollOffset, updVars, memoVars, lifeVars, measureVars, activeKey, hoverComponent, overlay,
                 touchVars, springVars, isAutoscrollingNative, targetScrollOffset,
                 isAutoscrollingJs, loopTick, resolveAutoscroll, panGestureState,
                 handlerState, listScrollY, nDrag, accepted>>

\* The list is a scrollable host view: the user scrolls it and the component,
\* which registers no scroll handler, is not told.
Scroll(y) ==
  /\ phase = "mounted"
  /\ y # listScrollY
  /\ listScrollY' = y
  /\ UNCHANGED <<propVars, scrollOffset, updVars, memoVars, lifeVars, measureVars, reactVars, dragVars, touchVars,
                 springVars, scrollVars, isPressedInJs, panGestureState, calls,
                 handlerState, ghostVars>>

\* The coordinates a pan event reports, and the positions the list is scrolled to.
Touches == {0, MaxTouch}
ScrollPositions == {0, MaxScroll}

Next ==
  \/ Constructor
  \/ Mount
  \/ OnLayout
  \/ OnSuccess
  \/ \E key \in DragKeys : \E hc \in HoverNodes(key) : Drag(key, hc)
  \/ Commit
  \/ \E state \in GestureStates, x \in Touches, y \in Touches : PanStateChange(state, x, y)
  \/ \E x \in Touches, y \in Touches : PanGestureEvent(x, y)
  \/ \E slot \in Slots : setupCell(slot)
  \/ SpringFinish
  \/ RunCall

Spec == Init /\ [][Next]_vars

\* The same component on vertical and horizontal lists of one section.
InitPan ==
  /\ variant \in Variants
  /\ hasKeyExtractor = TRUE
  /\ dragItemOverflow = FALSE
  /\ platformIOS = TRUE
  /\ sections = SectionsOfShape(<<MaxRows>>)
  /\ onScrollOffsetChange = FALSE
  /\ horizontal \in BOOLEAN
  /\ Fresh

SpecPan == InitPan /\ [][Next]_vars

\* ------------------------------------------------------------ with a scrolling host
\* The same component on a list the user also scrolls.
InitScroll ==
  /\ variant \in Variants
  /\ hasKeyExtractor = TRUE
  /\ dragItemOverflow = FALSE
  /\ platformIOS = TRUE
  /\ sections = SectionsOfShape(<<MaxRows>>)
  /\ onScrollOffsetChange = FALSE
  /\ horizontal = FALSE
  /\ Fresh

NextScroll ==
  \/ Next
  \/ \E y \in ScrollPositions : Scroll(y)

SpecScroll == InitScroll /\ [][NextScroll]_vars

\* ------------------------------------------------------------ new props
\* The queue holds retries of measureCell(key), as their key, and this task.
MeasureAllTask == <<"measureAll">>

\* What measureAll hands to keyExtractor in place of a header or row: the
\* `sections` variant the array it nests instead of spreading, the `data`
\* variant the section in place of each of its rows.
NestedArray == <<0, 0>>
SectionAsItem(sec) == <<sec.title[1], -1>>

RECURSIVE MeasureAllData(_)
\* measureAll of the `data` variant: the items it takes the keys of.
MeasureAllData(secs) ==
  IF secs = <<>> THEN <<>>
  ELSE <<secs[1].title>> \o [r \in 1..Len(secs[1].data) |-> SectionAsItem(secs[1])]
       \o MeasureAllData(Tail(secs))

\* measureAll of the `sections` variant: localHeadersAndData = [localHeadersAndData, x]
\* leaves a two-element array, the nested rest and the last item.
MeasureAllSections(secs) ==
  LET flat == Flatten(secs) IN
  IF flat = <<>> THEN <<>> ELSE <<NestedArray, flat[Len(flat)]>>

\* The keys measureAll calls measureCell with, in order.
MeasureAllKeys(secs) ==
  LET items == IF variant = "sections" THEN MeasureAllSections(secs)
               ELSE MeasureAllData(secs)
  IN [i \in 1..Len(items) |-> keyExtractor(items[i], i - 1)]

\* The keys of the headers and rows, and of the headers, of a list.
KeysOf(secs) ==
  {keyExtractor(Flatten(secs)[i], i - 1) : i \in 1..Len(Flatten(secs))}
TitleKeysOf(secs) == {keyExtractor(secs[i].title, i - 1) : i \in 1..Len(secs)}

\* dataKeysHaveChanged(a, b).
dataKeysHaveChanged(a, b) ==
  IF Len(a) # Len(b) THEN TRUE
  ELSE IF variant = "sections"
       THEN ~(\A k \in KeysOf(a) : k \in KeysOf(b))
       ELSE ~(\A k \in TitleKeysOf(b) : k \in TitleKeysOf(a))

\* componentDidUpdate's headersAndData: the `sections` variant appends the new
\* list's headers and rows to the array it has.
UpdatedHeadersAndData(new) ==
  IF variant = "sections" THEN headersAndData \o Flatten(new) ELSE headersAndData

\* The items componentDidUpdate stores the index of.
UpdatedItems(new) ==
  IF variant = "sections" THEN UpdatedHeadersAndData(new) ELSE Flatten(new)

\* The parent renders the component with a new list: render(), then
\* componentDidUpdate(prevProps, prevState) with dataHasChanged.  Cells that are
\* not rendered any more lose their ref; the host lays the new cells out.
UpdateProps(new) ==
  /\ phase = "mounted"
  /\ JsIdle
  /\ nUpdate < MaxUpdates
  /\ nUpdate' = nUpdate + 1
  /\ sections' = new
  /\ LET cells == RenderedCellsOf(new)
         keys == KeysOfCells(cells)
         shown == {keys[i] : i \in 1..Len(keys)}
         events == IF variant = "sections" THEN keys ELSE Twice(keys)
         changed == dataKeysHaveChanged(sections, new)
     IN
       /\ keyToIndex' = SetAll(RenderIndex(keyToIndex, cells), UpdatedItems(new), 0)
       /\ headersAndData' = UpdatedHeadersAndData(new)
       /\ cellData' = RenderCellData(cellData, keys)
       /\ cellRefs' = shown
       /\ layoutEvents' = SelectSeq(layoutEvents, LAMBDA k : k \in shown)
                            \o SelectSeq(events, LAMBDA k : k \notin cellRefs)
       /\ frames' = frames + 1
       /\ queue' = (IF changed THEN Append(queue, MeasureAllTask) ELSE queue)
       /\ keysChangedLog' = Append(keysChangedLog,
                                    [a |-> sections, b |-> new, result |-> changed])
  /\ UNCHANGED <<variant, hasKeyExtractor, dragItemOverflow, platformIOS,
                 onScrollOffsetChange, horizontal, scrollOffset, discarded,
                 measureAllLog,
                 memoVars, phase, listRef, measureRequests, reactVars, dragVars,
                 touchVars, springVars, scrollVars, isPressedInJs, panGestureState,
                 calls, handlerState, listScrollY, ghostVars>>

RECURSIVE MeasureCells(_, _)
\* measureCell for each key in turn: a measureLayout request, or a retry pushed
\* on the queue.
MeasureCells(st, keys) ==
  IF keys = <<>> THEN st
  ELSE MeasureCells(IF keys[1] \in cellRefs /\ listRef
                    THEN [st EXCEPT !.reqs = Append(@, keys[1])]
                    ELSE [st EXCEPT !.pushed = Append(@, keys[1])],
                    Tail(keys))

\* One task of the queue.
RunTask(st, task) ==
  IF task = MeasureAllTask
  THEN [MeasureCells(st, MeasureAllKeys(sections)) EXCEPT
          !.log = Append(@, [sections |-> sections, keys |-> MeasureAllKeys(sections)])]
  ELSE MeasureCells(st, <<task>>)

RECURSIVE RunTasks(_, _)
\* queue.forEach((fn) => fn()) over the tasks the queue held when it began.
RunTasks(st, tasks) ==
  IF tasks = <<>> THEN st ELSE RunTasks(RunTask(st, tasks[1]), Tail(tasks))

\* flushQueue, in the frame onNextFrame asked for: run the tasks, then
\* queue = [], which drops what the tasks pushed meanwhile.
flushQueue ==
  /\ phase = "mounted"
  /\ JsIdle
  /\ frames > 0
  /\ frames' = frames - 1
  /\ LET st == RunTasks([reqs |-> measureRequests, pushed |-> <<>>,
                          log |-> measureAllLog], queue)
     IN
       /\ measureRequests' = st.reqs
       /\ measureAllLog' = st.log
       /\ discarded' = discarded \cup {st.pushed[i] : i \in 1..Len(st.pushed)}
       /\ queue' = <<>>
  /\ UNCHANGED <<propVars, scrollOffset, keysChangedLog, nUpdate, memoVars, lifeVars,
                 layoutEvents, reactVars, dragVars, touchVars, springVars, scrollVars,
                 isPressedInJs, panGestureState, calls, handlerState, listScrollY,
                 ghostVars>>

InitUpdate ==
  /\ variant \in Variants
  /\ hasKeyExtractor = TRUE
  /\ dragItemOverflow = FALSE
  /\ platformIOS = TRUE
  /\ sections \in SectionLists
  /\ onScrollOffsetChange = FALSE
  /\ horizontal = FALSE
  /\ Fresh

\* The same, for vertical and horizontal lists.
InitMeasure ==
  /\ variant \in Variants
  /\ hasKeyExtractor = TRUE
  /\ dragItemOverflow = FALSE
  /\ platformIOS = TRUE
  /\ sections \in SectionLists
  /\ onScrollOffsetChange = FALSE
  /\ horizontal \in BOOLEAN
  /\ Fresh

\* The component is built and mounted, rows are dragged, the parent hands it
\* new lists.
NextUpdate ==
  \/ Constructor
  \/ Mount
  \/ OnLayout
  \/ OnSuccess
  \/ \E key \in DragKeys : \E hc \in HoverNodes(key) : Drag(key, hc)
  \/ Commit
  \/ \E new \in SectionLists : UpdateProps(new)
  \/ flushQueue

SpecUpdate == InitUpdate /\ [][NextUpdate]_vars

SpecMeasure == InitMeasure /\ [][NextUpdate]_vars

\* The JS thread runs every callback that is due: layout events, measureLayout
\* answers, setState batches, requested frames.
FairSpecUpdate ==
  /\ SpecUpdate
  /\ WF_vars(OnLayout)
  /\ WF_vars(OnSuccess)
  /\ WF_vars(Commit)
  /\ WF_vars(flushQueue)

\* ------------------------------------------------------------ scrollOffset
\* scrollOffset is a Value the component creates and never sets; whoever holds
\* the component can set it (Value.setValue), and the native thread then
\* evaluates the onChange node on it.
SetScrollOffset(v) ==
  /\ phase = "mounted"
  /\ v # scrollOffset
  /\ Len(calls) < MaxCalls
  /\ scrollOffset' = v
  /\ calls' = calls \o OnChangeScrollOffset(scrollOffset, v)
  /\ UNCHANGED <<propVars, updVars, memoVars, lifeVars, measureVars, reactVars,
                 dragVars, touchVars, springVars, scrollVars, isPressedInJs,
                 panGestureState, handlerState, listScrollY, ghostVars>>

InitOffset ==
  /\ variant \in Variants
  /\ hasKeyExtractor = TRUE
  /\ dragItemOverflow = FALSE
  /\ platformIOS = TRUE
  /\ sections \in SectionLists
  /\ onScrollOffsetChange \in BOOLEAN
  /\ horizontal = FALSE
  /\ Fresh

\* The component is built and mounted and its scrollOffset value is set.
NextOffset ==
  \/ Constructor
  \/ Mount
  \/ OnLayout
  \/ OnSuccess
  \/ \E v \in ScrollPositions : SetScrollOffset(v)
  \/ RunCall

SpecOffset == InitOffset /\ [][NextOffset]_vars

\* ------------------------------------------------------------ SectionList()
\* undefined; the components handed to memoizeWrap.
Undefined == <<"undefined">>
ReactNativeScrollView == <<"ReactNative.ScrollView">>
OtherComponent == <<"Component">>
WrapInputs == {Null, Undefined, ReactNativeScrollView, OtherComponent}

\* createNativeWrapper(Component, config): a new component at every call; n is
\* the number of wrappers made before.
createNativeWrapper(Component, n) == <<"wrapper", Component, n + 1>>

\* MEMOIZED.get(Component): undefined (here Null) when absent.
MemoGetNothing(memo, Component) == Null

MemoGet(memo, Component) ==
  IF MapHas(memo, Component) THEN memo[Component] ELSE Null

\* memoizeWrap(Component, config): the WeakMap, the wrappers made and the value
\* returned.
memoizeWrap(memo, made, Component) ==
  IF Component = Null \/ Component = Undefined
  THEN [memo |-> memo, made |-> made, result |-> Null]
  ELSE LET memoized == MemoGet(memo, Component) IN
       IF memoized = Null
       THEN LET w == createNativeWrapper(Component, Len(made)) IN
            [memo |-> MapSet(memo, Component, w), made |-> Append(made, Component),
             result |-> w]
       ELSE [memo |-> memo, made |-> made, result |-> memoized]

\* ScrollView(): memoizeWrap(ReactNative.ScrollView, {...}).
ScrollView(memo, made) == memoizeWrap(memo, made, ReactNativeScrollView)

\* React.forwardRef(render): a new component at every call; n tells them apart.
forwardRef(scrollView, n) == <<"forwardRef", scrollView, n>>

\* A call memoizeWrap(Component, config).
MemoizeWrapCall(Component) ==
  /\ Len(returned) < MaxMemoCalls
  /\ LET r == memoizeWrap(MEMOIZED, created, Component) IN
       /\ MEMOIZED' = r.memo
       /\ created' = r.made
       /\ returned' = Append(returned, <<"memoizeWrap", Component, r.result>>)
  /\ UNCHANGED <<propVars, scrollOffset, updVars, memoSectionList, lifeVars,
                 measureVars, reactVars, dragVars, touchVars, springVars, scrollVars,
                 isPressedInJs, panGestureState, calls, handlerState, listScrollY,
                 ghostVars>>

\* A call SectionList().
SectionListCall ==
  /\ Len(returned) < MaxMemoCalls
  /\ IF memoSectionList = Null
     THEN LET r == ScrollView(MEMOIZED, created) IN
            /\ MEMOIZED' = r.memo
            /\ created' = r.made
            /\ memoSectionList' = forwardRef(r.result, Len(returned))
     ELSE UNCHANGED <<MEMOIZED, created, memoSectionList>>
  /\ returned' = Append(returned, <<"SectionList", Null, memoSectionList'>>)
  /\ UNCHANGED <<propVars, scrollOffset, updVars, lifeVars, measureVars, reactVars,
                 dragVars, touchVars, springVars, scrollVars, isPressedInJs,
                 panGestureState, calls, handlerState, listScrollY, ghostVars>>

InitMemo ==
  /\ variant = "data"
  /\ hasKeyExtractor = TRUE
  /\ dragItemOverflow = FALSE
  /\ platformIOS = TRUE
  /\ sections = <<>>
  /\ onScrollOffsetChange = FALSE
  /\ horizontal = FALSE
  /\ Fresh

NextMemo ==
  \/ \E Component \in WrapInputs : MemoizeWrapCall(Component)
  \/ SectionListCall

SpecMemo == InitMemo /\ [][NextMemo]_vars

\* ------------------------------------------------------------ autoscroll alone
\* autoscroll is a method of the component; checkAutoscroll's call() node hands
\* it [distToTopEdge, distToBottomEdge, scrollOffset, isScrolledUp, isScrolledDown].
Dists == {0, autoscrollThreshold \div 2, autoscrollThreshold,
          autoscrollThreshold + autoscrollThreshold \div 2}
Offsets == {0, autoscrollSpeed}
AutoscrollParams ==
  {<<t, b, o, u, d>> : t \in Dists, b \in Dists, o \in Offsets, u \in {0, 1}, d \in {0, 1}}

\* autoscroll(params), called while no other JS task runs.
AutoscrollCall(params) ==
  /\ phase = "mounted"
  /\ JsIdle
  /\ ~autoscrollLooping
  /\ autoscroll(params)
  /\ UNCHANGED <<propVars, scrollOffset, updVars, memoVars, lifeVars, measureVars, reactVars, dragVars, touchVars,
                 springVars, isAutoscrollingNative, targetScrollOffset,
                 isAutoscrollingJs, loopTick, resolveAutoscroll, isPressedInJs,
                 panGestureState, calls, handlerState, listScrollY, ghostVars>>

\* scrollToAsync(offset) of the `data` variant, called while no other JS task
\* runs.
ScrollToAsyncCall(offset) ==
  /\ phase = "mounted"
  /\ variant = "data"
  /\ JsIdle
  /\ scrollToAsync(offset)
  /\ UNCHANGED <<propVars, scrollOffset, updVars, memoVars, lifeVars, measureVars,
                 reactVars, dragVars, touchVars, springVars, autoscrollLooping, asPc,
                 curParams, loopTick, isPressedInJs, panGestureState, calls,
                 handlerState, listScrollY, ghostVars>>

InitAutoscroll ==
  /\ variant \in Variants
  /\ hasKeyExtractor = TRUE
  /\ dragItemOverflow = FALSE
  /\ platformIOS \in BOOLEAN
  /\ sections = SectionsOfShape(<<MaxRows>>)
  /\ onScrollOffsetChange = FALSE
  /\ horizontal = FALSE
  /\ Fresh

\* The component is built and mounted, rows are dragged, autoscroll is called.
NextAutoscroll ==
  \/ Constructor
  \/ Mount
  \/ OnLayout
  \/ OnSuccess
  \/ \E key \in DragKeys : \E hc \in HoverNodes(key) : Drag(key, hc)
  \/ Commit
  \/ \E params \in AutoscrollParams : AutoscrollCall(params)
  \/ AutoscrollIterate
  \/ \E offset \in Offsets : ScrollToAsyncCall(offset)

SpecAutoscroll == InitAutoscroll /\ [][NextAutoscroll]_vars

\* The JS thread keeps running the loop it is in.
FairSpecAutoscroll == SpecAutoscroll /\ WF_vars(AutoscrollIterate)

\* The component is built and mounted and its autoscroll methods are called:
\* every iteration of autoscroll's loop calls getScrollTargetOffset.
NextTarget ==
  \/ Constructor
  \/ Mount
  \/ \E params \in AutoscrollParams : AutoscrollCall(params)
  \/ AutoscrollIterate
  \/ \E offset \in Offsets : ScrollToAsyncCall(offset)

SpecTarget == InitAutoscroll /\ [][NextTarget]_vars

\* ------------------------------------------------------------ properties
\* The entries of the callback log with a given name.
IsBegin(e) == e[1] = "onDragBegin"
NumOf(name) == Cardinality({i \in 1..Len(callbacks) : callbacks[i][1] = name})

\* The index of the item with a key in the flat order of headers and rows, -1
\* when there is none.
FlatKeys == [i \in 1..Len(Flatten(sections)) |->
               PropsKeyExtractor(Flatten(sections)[i], i - 1)]
FlatIndex(key) == IndexOf(FlatKeys, key)

\* `new` is `old` with the element at `from` moved to `to` (0-based).
IsReorderingOf(new, old, from, to) ==
  IF from = to THEN new = old
  ELSE /\ Len(new) = Len(old)
       /\ from \in 0..(Len(old) - 1)
       /\ to \in 0..(Len(old) - 1)
       /\ new[to + 1] = old[from + 1]
       /\ Splice(new, to, 1, <<>>) = Splice(old, from, 1, <<>>)

\* C1: in the `data` variant every onDragEnd({from, to, data}) hands over a
\* reordering of props.data: same length, same elements, the element of position
\* `from` at position `to`, the others in their order; the input itself when
\* from = to.
C1_DataIsReordering ==
  \A i \in 1..Len(callbacks) :
    callbacks[i][1] = "onDragEnd" =>
      IsReorderingOf(callbacks[i][4], sections, callbacks[i][2], callbacks[i][3])

\* C2: every call of autoscroll ends: once autoscrollLooping is set, the loop
\* exits and autoscrollLooping is false again.
C2_AutoscrollTerminates == autoscrollLooping ~> ~autoscrollLooping

\* The list is idle: no row is lifted and the gesture is enabled.
Idle ==
  /\ activeKey = Null
  /\ hoverComponent = Null
  /\ activeIndex = -1
  /\ spacerIndex = -1
  /\ disabled = 0

\* C3: a drop returns the list to idle: when a lifted row has been released
\* (disabled was set) and everything the release started has run - the hover
\* spring has finished, no call to JS is in flight, no state update is pending -
\* the list is idle.
C3_DropReturnsToIdle ==
  (disabled = 1 /\ ~hoverClockRunning /\ calls = <<>> /\ pending = <<>>) => Idle

\* C4: a drag() call made while state.hoverComponent is set is rejected: it
\* leaves the state and the pending state updates alone and registers no
\* onDragBegin callback; onDragBegin is never called more often than a drag
\* was accepted.
C4_RejectedWhileLifted ==
  /\ [][(nDrag' # nDrag /\ hoverComponent # Null) =>
          /\ activeKey' = activeKey
          /\ hoverComponent' = hoverComponent
          /\ pending' = pending
          /\ accepted' = accepted
          /\ callbacks' = callbacks]_vars
  /\ [](NumOf("onDragBegin") <= Len(accepted))

C4_Witness == nDrag > Len(accepted) /\ hoverComponent # Null /\ activeKey # Null

\* C5: whenever the touch position changes during a drag with the pan gesture
\* ACTIVE so that the lifted row is within autoscrollThreshold of the top edge,
\* the list is scrolled away from its top and no autoscroll is in progress,
\* autoscroll(params) is invoked.
C5_AutoscrollNearEdge ==
  [][(/\ touchAbsolute' # touchAbsolute
      /\ activeIndex' > -1
      /\ panGestureState' = "ACTIVE"
      /\ isAtTopEdge(touchAbsolute', activeCellSize')
      /\ listScrollY' > scrollPositionTolerance
      /\ isAutoscrollingNative' = 0
      /\ ~autoscrollLooping')
     => \E i \in 1..Len(calls') : calls'[i].fn = "autoscroll"]_vars

\* componentDidUpdate sees a row become active whose key has an index.
Activation == activeKey = Null /\ activeKey' # Null /\ MapHas(keyToIndex, activeKey')

\* The JS thread runs resetHoverState.
ResetStep == calls # <<>> /\ Head(calls).fn = "resetHoverState" /\ calls' = Tail(calls)

HoverComponentsRendered ==
  \A i \in 1..Len(accepted) : accepted[i].hoverComponent # Null

\* C7 (as amended): state.hoverComponent is set only when state.activeKey is;
\* when every hover component handed to drag is not null, activeKey is null
\* exactly when hoverComponent is null; the overlay is rendered exactly when
\* hoverComponent is set; activeIndex > -1 only when activeKey is not null.
C7_ActivePairOverlay ==
  /\ hoverComponent # Null => activeKey # Null
  /\ HoverComponentsRendered => (activeKey = Null <=> hoverComponent = Null)
  /\ overlay # Null <=> hoverComponent # Null
  /\ activeIndex > -1 => activeKey # Null

C7_Witness ==
  /\ activeKey # Null
  /\ hoverComponent # Null
  /\ overlay = renderHoverComponent(hoverComponent)
  /\ activeIndex > -1

\* C7 (as stated): in every reachable state activeKey is null exactly when
\* hoverComponent is null, the overlay is rendered exactly when hoverComponent
\* is set, and activeIndex > -1 only when activeKey is not null.
C7_ActiveKeyIffHover ==
  /\ activeKey = Null <=> hoverComponent = Null
  /\ overlay # Null <=> hoverComponent # Null
  /\ activeIndex > -1 => activeKey # Null

\* The items of the list.
Items == {Flatten(sections)[i] : i \in 1..Len(Flatten(sections))}

\* C8: without a keyExtractor prop every keyExtractor call throws the Error, a
\* component with at least one section does not get constructed and stores no
\* key; with the prop, keyExtractor returns props.keyExtractor(item, index) and
\* the constructor does not throw.
C8_KeyExtractorMandatory ==
  /\ \A item \in Items, index \in 0..Len(Flatten(sections)) :
       keyExtractor(item, index) =
         (IF hasKeyExtractor THEN PropsKeyExtractor(item, index) ELSE Throw)
  /\ (~hasKeyExtractor /\ sections # <<>> /\ phase # "new") =>
       (phase = "threw" /\ keyToIndex = EmptyMap)
  /\ hasKeyExtractor => phase # "threw"

C8_Witness == phase = "threw" /\ ~hasKeyExtractor /\ sections # <<>>

\* C9: with dragItemOverflow off, during a drag hoverAnim stays within
\* 0..containerSize - activeCellSize.
C9_HoverWithinContainer ==
  (activeIndex > -1 /\ ~dragItemOverflow) =>
    (0 <= hoverAnim /\ hoverAnim <= containerSize - activeCellSize)

\* The accepted drags whose state update has been committed, and of those the
\* ones whose key has an index.
PendingDrags == Cardinality({i \in 1..Len(pending) : pending[i].cb # Null})
Committed == SubSeq(accepted, 1, Len(accepted) - PendingDrags)
HasIndex(a) == MapHas(keyToIndex, a.key)
CommittedWithIndex == SelectSeq(Committed, HasIndex)

\* The number of calls of a callback among the first j calls.
PrefixCount(name, j) == Cardinality({i \in 1..j : callbacks[i][1] = name})

GestureEnd == handlerState' \in Terminal /\ handlerState' # handlerState

\* The calls of a handler among the calls in flight, and the step that runs one.
CallsOf(cs, fn) == SelectSeq(cs, LAMBDA c : c.fn = fn)
RunsCall(fn) == calls # <<>> /\ Head(calls).fn = fn /\ calls' = Tail(calls)

\* C11: in the `data` variant, when the pan gesture ends while a row is active,
\* exactly one onRelease call is made, with the active row's index; when no row
\* is active no onRelease call is made; the call runs the props' onRelease with
\* that index and leaves isPressedIn.js false; every onDragEnd comes after the
\* onRelease of the same drop.
C11_ReleaseAtGestureEnd ==
  /\ [][(variant = "data" /\ GestureEnd /\ activeIndex > -1) =>
          /\ Len(CallsOf(calls', "onRelease")) = Len(CallsOf(calls, "onRelease")) + 1
          /\ CallsOf(calls', "onRelease")[Len(CallsOf(calls', "onRelease"))].args
               = <<activeIndex>>]_vars
  /\ [][(variant = "data" /\ GestureEnd /\ activeIndex = -1) =>
          CallsOf(calls', "onRelease") = CallsOf(calls, "onRelease")]_vars
  /\ [][(variant = "data" /\ RunsCall("onRelease")) =>
          /\ callbacks' = Append(callbacks, <<"onRelease", Head(calls).args[1]>>)
          /\ ~isPressedInJs']_vars
  /\ [](variant = "data" =>
          \A j \in 1..Len(callbacks) :
            callbacks[j][1] = "onDragEnd" =>
              PrefixCount("onDragEnd", j) <= PrefixCount("onRelease", j))

\* C12: in the `data` variant with an onScrollOffsetChange prop, every change of
\* scrollOffset makes a call to JS with the new offset, and that call calls
\* onScrollOffsetChange(offset).
C12_OffsetChangeCallsProp ==
  /\ [][(variant = "data" /\ onScrollOffsetChange /\ scrollOffset' # scrollOffset) =>
          calls' = Append(calls, [fn |-> "scrollOffsetCall", args |-> <<scrollOffset'>>])]_vars
  /\ [][(variant = "data" /\ onScrollOffsetChange /\ RunsCall("scrollOffsetCall")) =>
          callbacks' = Append(callbacks, <<"onScrollOffsetChange", Head(calls).args[1]>>)]_vars

\* The calls made so far with a given function.
ReturnedBy(fn) == SelectSeq(returned, LAMBDA e : e[1] = fn)

\* C13: every SectionList() call returns the same component; createNativeWrapper
\* is called at most once for a component, and the memoizeWrap calls for one
\* component all return the same wrapper, the one SectionList() uses for the
\* ScrollView; memoizeWrap returns null for null and undefined and caches
\* nothing for them.
C13_FactoryMemoized ==
  /\ \A i, j \in 1..Len(ReturnedBy("SectionList")) :
       /\ ReturnedBy("SectionList")[i][3] # Null
       /\ ReturnedBy("SectionList")[i][3] = ReturnedBy("SectionList")[j][3]
  /\ \A i, j \in 1..Len(created) : created[i] = created[j] => i = j
  /\ \A i, j \in 1..Len(ReturnedBy("memoizeWrap")) :
       ReturnedBy("memoizeWrap")[i][2] = ReturnedBy("memoizeWrap")[j][2] =>
         ReturnedBy("memoizeWrap")[i][3] = ReturnedBy("memoizeWrap")[j][3]
  /\ \A i \in 1..Len(returned) :
       /\ (returned[i][1] = "memoizeWrap" /\ returned[i][2] \in {Null, Undefined}) =>
            returned[i][3] = Null
       /\ (returned[i][1] = "memoizeWrap" /\ returned[i][2] \notin {Null, Undefined}) =>
            returned[i][3] = MEMOIZED[returned[i][2]]
       /\ (returned[i][1] = "SectionList") =>
            returned[i][3][2] = MEMOIZED[ReactNativeScrollView]
  /\ DOMAIN MEMOIZED \cap {Null, Undefined} = {}
  /\ \A i \in 1..Len(created) : created[i] \notin {Null, Undefined}

C13_Witness ==
  /\ Len(ReturnedBy("SectionList")) = 2
  /\ \E i, j \in 1..Len(returned) :
       /\ i < j
       /\ returned[i] = <<"memoizeWrap", Null, Null>>
       /\ returned[j][1] = "memoizeWrap"
       /\ returned[j][2] = ReactNativeScrollView
  /\ created = <<ReactNativeScrollView>>

\* C14: no queued measurement task is lost: flushQueue drops no task it has
\* not run, the retries that measureCell pushes while flushQueue runs included.
C14_NoTaskLost == discarded = {}

\* The number of times x occurs in a sequence.
CountIn(seq, x) == Cardinality({i \in 1..Len(seq) : seq[i] = x})

\* C15: every measureAll calls measureCell exactly once with the key of each
\* header and each row of the list (the key keyToIndex and cellData store it
\* under), and with no other key.
C15_MeasureAllCoversCells ==
  \A i \in 1..Len(measureAllLog) :
    /\ \A k \in KeysOf(measureAllLog[i].sections) : CountIn(measureAllLog[i].keys, k) = 1
    /\ \A j \in 1..Len(measureAllLog[i].keys) :
         measureAllLog[i].keys[j] \in KeysOf(measureAllLog[i].sections)

\* C16: in the `sections` variant, once constructed, headersAndData is the
\* flattening of the current sections and keyToIndex maps the key of every
\* header and row to its position in it.
C16_FlatIndexMaintained ==
  (variant = "sections" /\ phase \in {"constructed", "mounted"}) =>
    /\ headersAndData = Flatten(sections)
    /\ \A i \in 1..Len(Flatten(sections)) :
         /\ MapHas(keyToIndex, FlatKeys[i])
         /\ keyToIndex[FlatKeys[i]] = i - 1

\* C17: dataKeysHaveChanged(a, b) is true exactly when the keys of the headers
\* and rows of a and of b are different sets.
C17_KeysChangedIffKeySetsDiffer ==
  \A i \in 1..Len(keysChangedLog) :
    keysChangedLog[i].result = (KeysOf(keysChangedLog[i].a) # KeysOf(keysChangedLog[i].b))

\* Every key a header or a row can have.
AllKeys == {<<"key", s, r>> : s \in 1..MaxSections, r \in 0..MaxRows}

\* The cell's size and offset in cellData are the ones the host measured.
Measured(key) ==
  /\ MapHas(cellData, key)
  /\ cellData[key].size = RowSize
  /\ cellData[key].offset >= HostY(key)

\* C18: every rendered cell is eventually measured: once the component is
\* mounted and a cell is rendered with its ref, cellData gets the cell's
\* measured size and offset (unless the cell is unmounted first).
C18_CellEventuallyMeasured ==
  \A key \in AllKeys :
    (phase = "mounted" /\ key \in cellRefs) ~> (key \notin cellRefs \/ Measured(key))

\* The full scroll speed of the platform, and the step at distance d from an
\* edge: 0 at the threshold, the full speed at the edge.
FullSpeed == IF platformIOS THEN autoscrollSpeed ELSE autoscrollSpeed \div 10
StepAt(d) == FullSpeed - (d * FullSpeed) \div autoscrollThreshold
NearEdge(d) == d < autoscrollThreshold

\* The host answers measureCell(key)'s measureLayout with onSuccess.
MeasureAnswered(key) ==
  /\ measureRequests # <<>>
  /\ Head(measureRequests) = key
  /\ measureRequests' = Tail(measureRequests)
  /\ key \in cellRefs

Lifted == activeKey # Null

\* The cell comes after the lifted row in the list.
AfterActive(key) ==
  Lifted /\ FlatIndex(activeKey) > -1 /\ FlatIndex(key) > FlatIndex(activeKey)

\* The size measureCell stored last for the lifted row.
ActiveSize == IF MapHas(cellData, activeKey) THEN cellData[activeKey].size ELSE 0

\* C21: when measureLayout answers for a cell, measureCell stores as its size the
\* width of a horizontal list's cell and the height of a vertical list's, and as
\* its offset the measured position along the list, plus the lifted row's last
\* measured size when a row is lifted and the cell comes after it; it pushes
\* another measureCell of the key on the queue exactly when a row is lifted.
C21_MeasureCellStores ==
  [][\A key \in AllKeys : MeasureAnswered(key) =>
       /\ MapHas(cellData', key)
       /\ cellData'[key].size = (IF horizontal THEN HostRect(key)[3] ELSE HostRect(key)[4])
       /\ cellData'[key].offset =
            (IF horizontal THEN HostRect(key)[1] ELSE HostRect(key)[2])
            + (IF AfterActive(key) THEN ActiveSize ELSE 0)
       /\ queue' = (IF Lifted THEN Append(queue, key) ELSE queue)]_vars

\* onPanGestureEvent's condition, in the component's animated values.
LiftedActiveEnabled == activeIndex > -1 /\ panGestureState = "ACTIVE" /\ disabled = 0

\* C22: a pan move event at <<x, y>> received while a row is lifted, the gesture
\* is ACTIVE and the list is not disabled sets hasMoved to 1 and touchAbsolute
\* to activationDistance plus x on a horizontal list and plus y on a vertical
\* one; received in any other state it leaves both unchanged; and hasMoved
\* becomes 1 only by such an event.
C22_MoveOnlyWhileLifted ==
  /\ [][\A x \in Touches, y \in Touches : PanGestureEvent(x, y) =>
          IF LiftedActiveEnabled
          THEN /\ hasMoved' = 1
               /\ touchAbsolute' = (IF horizontal THEN x ELSE y) + activationDistance
          ELSE UNCHANGED <<touchAbsolute, hasMoved>>]_vars
  /\ [][(hasMoved = 0 /\ hasMoved' = 1) =>
          /\ LiftedActiveEnabled
          /\ \E x \in Touches, y \in Touches : PanGestureEvent(x, y)]_vars

\* A move event has moved the lifted row of a horizontal list.
C22_Witness ==
  /\ horizontal
  /\ LiftedActiveEnabled
  /\ hasMoved = 1
  /\ touchAbsolute = MaxTouch + activationDistance

\* C19: getScrollTargetOffset is -1 while isAutoscrolling.js is set, when the
\* row is near neither edge, when it is near the top of a list scrolled to the
\* top and when it is near the bottom of a list scrolled to the bottom; in
\* every other case it is >= 0: max(0, scrollOffset - step), at most scrollOffset,
\* when the row is near the top (also when it is near both edges), and
\* scrollOffset + step, at least scrollOffset, otherwise; the step is between 0
\* and the full speed, which it reaches at the edge.
C19_ScrollTargetOffset ==
  \A p \in AutoscrollParams :
    LET r == TargetOffset(p)
        nearTop == NearEdge(p[1])
        nearBottom == NearEdge(p[2])
    IN IF \/ isAutoscrollingJs
          \/ ~nearTop /\ ~nearBottom
          \/ nearTop /\ p[4] # 0
          \/ nearBottom /\ p[5] # 0
       THEN r = -1
       ELSE /\ r >= 0
            /\ nearTop => (r = Max(0, p[3] - StepAt(p[1])) /\ r <= p[3])
            /\ ~nearTop => (r = p[3] + StepAt(p[2]) /\ r >= p[3])
            /\ StepAt(0) = FullSpeed
            /\ StepAt(autoscrollThreshold) = 0
            /\ \A d \in {p[1], p[2]} : NearEdge(d) => (0 < StepAt(d) /\ StepAt(d) <= FullSpeed)

C19_Witness ==
  /\ isAutoscrollingJs
  /\ asPc = "loop"
  /\ NearEdge(curParams[1])
  /\ curParams[4] = 0
  /\ TargetOffset(curParams) = -1

\* C20: in the `data` variant a scroll step that scrollToAsync has started
\* (isAutoscrolling.native = 1, isAutoscrolling.js = true) eventually completes:
\* both flags are 0 / false again.
C20_ScrollStepCompletes ==
  (variant = "data" /\ isAutoscrollingJs /\ isAutoscrollingNative = 1)
    ~> (~isAutoscrollingJs /\ isAutoscrollingNative = 0)
====
